---- MODULE Spec2Model ----
(***************************************************************************)
(* Model of the daily invoicing job of facture_to_sellsy.                  *)
(*                                                                         *)
(* The orchestration is the draft of src/src/index.js at lines 263-570     *)
(* (checkEnvironmentVariables, main, getActiveSubscriptions,               *)
(* checkIfInvoiceNeeded, getServicesForSubscription,                       *)
(* generateInvoicesForServices, updateServiceOccurrences).  The billing    *)
(* client is src/src/sellsy.js, which holds several drafts of              *)
(* generateInvoice; the drafts the orchestration can be linked with        *)
(* are modelled and selected by the variable sellsyDraft:                  *)
(*   "direct-debit" : sellsy.js lines 1-379   (generateInvoice 261-346)    *)
(*   "gocardless"   : sellsy.js lines 381-871 (generateInvoice 747-840)    *)
(*   "configure-gocardless" : src/unnamed/part_002 lines 1-343             *)
(*                    (generateInvoice 224-310), the direct-debit draft    *)
(*                    with configureGoCardlessPayment in place of          *)
(*                    configureDirectDebitPayment                          *)
(*                                                                         *)
(* Every await on an external service (Airtable, Sellsy) is one step whose *)
(* outcome, resolved or rejected, is chosen nondeterministically.  A       *)
(* Sellsy call is the whole sellsyRequest call: "rejected" means that      *)
(* sellsyRequest threw, i.e. after its retries.                            *)
(***************************************************************************)
EXTENDS Integers, Sequences, FiniteSets, TLC

(***************************************************************************)
(* JavaScript values held by Airtable fields.                              *)
(***************************************************************************)
Undefined == [k |-> "undefined"]
NaN == [k |-> "NaN"]
Num(n) == [k |-> "number", n |-> n]
\* A string, as the sequence of its characters.
Str(cs) == [k |-> "string", s |-> cs]

\* ToBoolean, as used by !x and x || y.
Truthy(v) ==
  CASE v.k = "undefined" -> FALSE
    [] v.k = "NaN" -> FALSE
    [] v.k = "number" -> v.n # 0
    [] v.k = "string" -> Len(v.s) > 0

Digits == <<"0", "1", "2", "3", "4", "5", "6", "7", "8", "9">>

IsDigit(c) == \E d \in 1..10 : Digits[d] = c

DigitValue(c) == (CHOOSE d \in 1..10 : Digits[d] = c) - 1

RECURSIVE SkipSpaces(_, _)
SkipSpaces(cs, p) ==
  IF p <= Len(cs) /\ cs[p] = " " THEN SkipSpaces(cs, p + 1) ELSE p

RECURSIVE DigitRun(_, _, _)
DigitRun(cs, p, acc) ==
  IF p <= Len(cs) /\ IsDigit(cs[p])
    THEN DigitRun(cs, p + 1, acc * 10 + DigitValue(cs[p]))
    ELSE acc

\* parseInt(v) without radix: the argument is converted to a string, leading
\* white space is skipped, an optional sign is read and then the longest run
\* of decimal digits; NaN when there is no digit.  Numbers of the model are
\* integers, whose string form parses back to themselves.
ParseInt(v) ==
  CASE v.k = "number" -> v
    [] v.k = "undefined" -> NaN
    [] v.k = "NaN" -> NaN
    [] v.k = "string" ->
         LET p == SkipSpaces(v.s, 1)
             signed == p <= Len(v.s) /\ v.s[p] \in {"-", "+"}
             q == IF signed THEN p + 1 ELSE p
         IN IF q <= Len(v.s) /\ IsDigit(v.s[q])
              THEN Num((IF signed /\ v.s[p] = "-" THEN -1 ELSE 1) * DigitRun(v.s, q, 0))
              ELSE NaN

\* (x || 0) on a numeric field.
OrZero(v) == IF Truthy(v) /\ v.k = "number" THEN v.n ELSE 0

Max(a, b) == IF a >= b THEN a ELSE b

(***************************************************************************)
(* Calendar: new Date() of the run, as month and day of a non-leap year.   *)
(***************************************************************************)
DaysInMonth(m) ==
  CASE m = 2 -> 28
    [] m \in {4, 6, 9, 11} -> 30
    [] OTHER -> 31

Dates == {[month |-> m, day |-> d] : m \in 1..12, d \in 1..31}

ValidDates == {t \in Dates : t.day <= DaysInMonth(t.month)}

\* today.getDate()
GetDate(t) == t.day

DayOfYear(t) ==
  LET RECURSIVE Before(_)
      Before(m) == IF m = 1 THEN 0 ELSE DaysInMonth(m - 1) + Before(m - 1)
  IN Before(t.month) + t.day

(***************************************************************************)
(* Records.                                                                *)
(***************************************************************************)
AboIds == {"recA1", "recA2"}

\* The order in which the "Grid view" of table Abonnements yields its records.
AboOrder == <<"recA1", "recA2">>

ServiceIds == {"recS1", "recS2"}

BoolTrue == "<true>"

\* Bounds of the model.
MaxRuns == 2

MaxFaults == 2

MaxCalls == 13

MaxTotal == 12

April(d) == [month |-> 4, day |-> d]

\* The days on which the job is run.
RunDates == {April(15), April(30)}

VARIABLES
  env,               \* the environment variables that are set and not empty
  sellsyDraft,       \* which draft of sellsy.js the job is linked with
  caller,            \* "main": the job; "test": updateServiceOccurrences called directly
  faults,            \* how many more calls Airtable and Sellsy may reject
  today,             \* the date of the current run
  abonnementsTable,  \* Airtable table Abonnements: id -> fields
  serviceTable,      \* Airtable table service_sellsy: id -> fields
  pc,                \* position of the run
  abonnements,       \* main: the subscriptions fetched
  ai,                \* main: index of the for loop over abonnements
  invoiceNeeded,     \* main: result of checkIfInvoiceNeeded for abonnements[ai]
  si,                \* getServicesForSubscription: index in serviceRecordIds
  services,          \* getServicesForSubscription: the valid services read
  vi,                \* generateInvoicesForServices: index of the for loop
  paymentMethodId,   \* generateInvoice: TRUE when a payment method was found
  invoice,           \* generateInvoice: index of the invoice created, 0 when none
  serviceId,         \* updateServiceOccurrences: its argument
  service,           \* updateServiceOccurrences: the fields re-read
  invoicesGenerated, \* main: the summary counter
  exitCode,          \* -1 while running, else the exit status of the process
  sellsyInvoices,    \* Sellsy: the invoices that exist, in creation order
  log,               \* calls made by the current run on behalf of services
  updates,           \* per service, the serviceTable.update calls that succeeded
  calls,             \* number of direct calls of updateServiceOccurrences
  run,               \* number of the current run
  accessToken,       \* sellsy.js: the cached token, 0 for null
  tokenExpiration,   \* sellsy.js: when the cache stops being used, 0 for null
  dateNow,           \* Date.now(), in milliseconds
  rq,                \* position of the sellsyRequest under way
  retryCount,        \* sellsyRequest: its parameter retryCount
  tokenRetry,        \* getAccessToken: its parameter retryCount
  token,             \* sellsyRequest: the token of the Authorization header
  answer,            \* sellsyRequest: the last answer, or the error caught last
  sends,             \* requests sent to the API for the current call
  posts,             \* requests sent to the token endpoint for the current call
  issued,            \* tokens the token endpoint has issued so far
  expiresAt,         \* when the cached token expires at Sellsy
  rejected,          \* the tokens the API has answered with 401
  requests,          \* number of calls of sellsyRequest so far
  stopped,           \* the services and days of the runs stopped before an update
  edits              \* number of edits made to the records by hand so far

vars == <<env, sellsyDraft, caller, faults, today, abonnementsTable, serviceTable,
          pc, abonnements, ai, invoiceNeeded, si, services, vi, paymentMethodId,
          invoice, serviceId, service, invoicesGenerated, exitCode,
          sellsyInvoices, log, updates, calls, run,
          accessToken, tokenExpiration, dateNow, rq, retryCount, tokenRetry, token,
          answer, sends, posts, issued, expiresAt, rejected, requests, stopped,
          edits>>

\* What happens to the job from outside.
outVars == <<stopped, edits>>

\* The token cache of sellsy.js.
cacheVars == <<accessToken, tokenExpiration, expiresAt>>

\* One call of sellsyRequest, step by step.
reqVars == <<dateNow, rq, retryCount, tokenRetry, token, answer, sends, posts,
             issued, rejected, requests>>

config == <<env, sellsyDraft, caller, today, abonnementsTable, run, calls,
            cacheVars, reqVars, outVars>>

mainVars == <<abonnements, ai, invoiceNeeded, invoicesGenerated>>

fetchVars == <<si, services>>

giVars == <<paymentMethodId, invoice>>

updVars == <<serviceId, service>>

(***************************************************************************)
(* Pure parts of src/src/index.js.                                         *)
(***************************************************************************)
\* checkEnvironmentVariables: requiredVars
RequiredVars ==
  {"AIRTABLE_API_KEY", "AIRTABLE_BASE_ID", "SELLSY_CLIENT_ID", "SELLSY_CLIENT_SECRET"}

\* A mutant of missingVars: only the Sellsy settings are required.
MissingVarsOfSellsy(e) ==
  {varName \in {"SELLSY_CLIENT_ID", "SELLSY_CLIENT_SECRET"} : varName \notin e}

\* checkEnvironmentVariables: missingVars
MissingVars(e) == {varName \in RequiredVars : varName \notin e}

\* A mutant of checkIfInvoiceNeeded: a billing day past the end of the month
\* is moved to the last day of the month.
CheckIfInvoiceNeededRollingOver(fields, now) ==
  LET jourFacturation == fields.JourDeFacturation
      currentDay == GetDate(now)
      lastDay == DaysInMonth(now.month)
      billingDay == ParseInt(jourFacturation)
  IN IF ~Truthy(jourFacturation) THEN FALSE
     ELSE /\ billingDay.k = "number"
          /\ currentDay = (IF billingDay.n > lastDay THEN lastDay ELSE billingDay.n)

\* A mutant of checkIfInvoiceNeeded: due from the billing day on.
CheckIfInvoiceNeededFromDayOn(fields, now) ==
  LET jourFacturation == fields.JourDeFacturation
      currentDay == GetDate(now)
      billingDay == ParseInt(jourFacturation)
  IN IF ~Truthy(jourFacturation) THEN FALSE
     ELSE billingDay.k = "number" /\ currentDay >= billingDay.n

\* checkIfInvoiceNeeded(abonnement), with new Date() = now.
CheckIfInvoiceNeeded(fields, now) ==
  LET jourFacturation == fields.JourDeFacturation
      currentDay == GetDate(now)
  IN IF ~Truthy(jourFacturation)
       THEN FALSE
       ELSE Num(currentDay) = ParseInt(jourFacturation)

\* A mutant of the selection: no filterByFormula.
SelectAll(table) ==
  [n \in 1..Len(AboOrder) |-> [id |-> AboOrder[n], fields |-> table[AboOrder[n]]]]

\* filterByFormula "Statut='Actif'", in view order.
SelectActive(table) ==
  SelectSeq([n \in 1..Len(AboOrder) |-> [id |-> AboOrder[n], fields |-> table[AboOrder[n]]]],
            LAMBDA r : r.fields.Statut = "Actif")

\* A mutant of the test on 'Actif': only the boolean is accepted.
IsActiveTrueOnly(fields) == fields.Actif = BoolTrue

\* The three tests of getServicesForSubscription on a service that was found.
IsActive(fields) == fields.Actif = "Actif" \/ fields.Actif = BoolTrue

IsAbonnement(fields) == fields.Categorie = "Abonnement"

\* A mutant of the client test: any non-empty client id passes.
SameClientAny(fields, idSellsyClient) == Truthy(fields.ID_Sellsy_abonne)

SameClient(fields, idSellsyClient) ==
  LET serviceClientId == fields.ID_Sellsy_abonne
  IN Truthy(serviceClientId) /\ serviceClientId = idSellsyClient

IsValidService(fields, idSellsyClient) ==
  IsActive(fields) /\ IsAbonnement(fields) /\ SameClient(fields, idSellsyClient)

\* A mutant of the occurrences test: the remaining count is computed from the
\* total and the elapsed count of the copy.
HasOccurrencesRecomputed(fields) ==
  Max(0, OrZero(fields.OccurrencesTotales) - OrZero(fields.MoisFactures)) > 0

\* A mutant of the occurrences test: only a negative count stops the invoice.
HasOccurrencesUnlessNegative(fields) ==
  LET occurrencesRestantes == OrZero(fields.OccurrencesRestantes)
  IN ~(occurrencesRestantes < 0)

\* A mutant of the test on 'ID Sellsy': the test is left out.
HasSellsyIdNotTested(fields) == TRUE

\* The test of generateInvoicesForServices on the copy read by
\* getServicesForSubscription: FALSE means "continue".
HasOccurrences(fields) ==
  LET occurrencesRestantes == OrZero(fields.OccurrencesRestantes)
  IN ~(occurrencesRestantes <= 0)

HasSellsyId(fields) == fields.ID_Sellsy # ""

\* taxRate: service.fields['Taux TVA'] || 20
TaxRateOf(fields) == IF Truthy(fields.TauxTVA) THEN fields.TauxTVA ELSE Num(20)

\* A mutant of moisFactures: the elapsed count is written back as read.
MoisFacturesAsRead(rec) == OrZero(rec.MoisFactures)

\* updateServiceOccurrences: the values computed from the record re-read.
MoisFactures(rec) == OrZero(rec.MoisFactures) + 1

OccurrencesTotales(rec) == OrZero(rec.OccurrencesTotales)

\* A mutant of nouvellesOccurrencesRestantes: the difference itself.
NouvellesOccurrencesRestantesUnclamped(rec) ==
  OccurrencesTotales(rec) - MoisFactures(rec)

NouvellesOccurrencesRestantes(rec) ==
  Max(0, OccurrencesTotales(rec) - MoisFactures(rec))

\* A mutant of the fields object: only the elapsed count is passed.
UpdateFieldsMoisOnly(rec) == [MoisFactures |-> Num(MoisFactures(rec))]

\* A mutant of the fields object: the values are computed from the record
\* as it is stored when the update is sent.
UpdateFieldsFromStored(rec) ==
  [MoisFactures |-> Num(MoisFactures(serviceTable[serviceId])),
   OccurrencesRestantes |-> Num(NouvellesOccurrencesRestantes(serviceTable[serviceId]))]

\* The fields object passed to serviceTable.update.
UpdateFields(rec) ==
  [MoisFactures |-> Num(MoisFactures(rec)),
   OccurrencesRestantes |-> Num(NouvellesOccurrencesRestantes(rec))]

\* Airtable's update: the fields given replace the stored ones, the others stay.
ApplyUpdate(fields, given) ==
  [f \in DOMAIN fields |-> IF f \in DOMAIN given THEN given[f] ELSE fields[f]]

(***************************************************************************)
(* Pure parts of src/src/sellsy.js.                                        *)
(***************************************************************************)
\* parseFloat on the values of the model, whose strings hold no decimal
\* point and no exponent: the optional sign and the leading digits.
ParseFloat(v) == ParseInt(v)

\* checkSellsyCredentials throws.
CredentialsMissing(e) ==
  "SELLSY_CLIENT_ID" \notin e \/ "SELLSY_CLIENT_SECRET" \notin e

\* The drafts of generateInvoice that check the numeric values and let the
\* errors of findPaymentMethodByName and of the validation through.
StrictDraft == sellsyDraft \in {"direct-debit", "configure-gocardless"}

IsNaN(v) == v.k = "NaN"

\* The test without the price: a price of 0 goes on to the billing API.
ParametersMissingButPrice(clientId, serviceName, price) ==
  ~Truthy(clientId) \/ serviceName = ""

\* generateInvoice: if (!clientId || !serviceName || !price) throw
ParametersMissing(clientId, serviceName, price) ==
  ~Truthy(clientId) \/ serviceName = "" \/ ~Truthy(price)

\* generateInvoice of the direct-debit draft: the three isNaN tests.
NumericCheckThrows(clientId, price, taxRate) ==
  \/ IsNaN(ParseFloat(price))
  \/ IsNaN(ParseFloat(taxRate))
  \/ IsNaN(ParseInt(clientId))

\* generateInvoice: the amounts of the row of invoiceData, converted from
\* the price and the tax rate that generateInvoicesForServices passes
\* (sellsy.js 767-769 and 802-803; 284, 290 and 317-318 in the direct-debit
\* draft).
InvoiceRow(fields) ==
  [unit_amount |-> ParseFloat(fields.PrixHT),
   tax_rate |-> ParseFloat(TaxRateOf(fields))]

(***************************************************************************)
(* The run: main of src/src/index.js and what it calls.                    *)
(***************************************************************************)
NoFields ==
  [Actif |-> "", Categorie |-> "", ID_Sellsy_abonne |-> Undefined, ID_Sellsy |-> "",
   NomDuService |-> "", PrixHT |-> Undefined, TauxTVA |-> Undefined,
   OccurrencesTotales |-> Undefined, MoisFactures |-> Undefined,
   OccurrencesRestantes |-> Undefined]

\* One call on an external service and its outcome: it resolves, or the
\* service rejects it.
Resolves(op, id) ==
  /\ log' = Append(log, [op |-> op, svc |-> id, ok |-> TRUE])
  /\ UNCHANGED faults

Rejects(op, id) ==
  /\ faults > 0
  /\ faults' = faults - 1
  /\ log' = Append(log, [op |-> op, svc |-> id, ok |-> FALSE])

\* process.exit(code), or the end of main
Exit(code) == pc' = "exited" /\ exitCode' = code

\* main: "continue", or the end of the body of the for loop
NextAbonnement == pc' = "loop" /\ ai' = ai + 1

\* generateInvoicesForServices: "continue", or the end of the body of its loop
NextService == pc' = "service" /\ vi' = vi + 1

\* updateServiceOccurrences is entered with its argument.
CallUpdate(id) == pc' = "updateFind" /\ serviceId' = id /\ service' = NoFields

\* A mutant of CatchInvoiceError: the counters are updated although
\* generateInvoice threw.
CatchInvoiceErrorThenUpdate ==
  CallUpdate(services[vi].id) /\ UNCHANGED <<vi, exitCode>>

\* A mutant of CatchInvoiceError: the error is thrown again and reaches the
\* catch of main.
CatchInvoiceErrorRethrown == Exit(1) /\ UNCHANGED <<vi, updVars>>

\* generateInvoicesForServices: the catch around generateInvoice and
\* updateServiceOccurrences logs the error and the loop goes on.
CatchInvoiceError == NextService /\ UNCHANGED <<exitCode, updVars>>

\* updateServiceOccurrences returns to its caller.
ReturnFromUpdate ==
  IF caller = "main"
    THEN NextService
    ELSE pc' = "idle" /\ UNCHANGED vi

\* A mutant of CatchUpdateError: updateServiceOccurrences starts again after
\* an error.
CatchUpdateErrorRetried == pc' = "updateFind" /\ UNCHANGED vi

\* updateServiceOccurrences: its catch logs the error and the function
\* returns normally (index.js 563-565).
CatchUpdateError == ReturnFromUpdate

\* main, lines 307-309
CheckEnvironmentVariables ==
  /\ pc = "start"
  /\ IF MissingVars(env) = {}
       THEN pc' = "connect" /\ UNCHANGED exitCode
       ELSE Exit(1)
  /\ UNCHANGED <<config, faults, updates, mainVars, fetchVars, giVars, updVars, vi,
                 serviceTable, sellsyInvoices, log>>

\* A mutant of the test of main on sellsyConnected: the run goes on.
ConnectionFailedIgnored == pc' = "select" /\ UNCHANGED exitCode

\* main, lines 313-315 and 347-350: checkSellsyConnection returned false.
ConnectionFailed == Exit(1)

\* main, line 312; checkSellsyConnection: checkSellsyCredentials and
\* getAccessToken (sellsy.js 846-851)
ConnectGetAccessToken ==
  /\ pc = "connect"
  /\ IF CredentialsMissing(env)
       THEN ConnectionFailed /\ UNCHANGED <<faults, log>>
       ELSE \/ Resolves("token", "") /\ pc' = "probe" /\ UNCHANGED exitCode
            \/ Rejects("token", "") /\ ConnectionFailed
  /\ UNCHANGED <<config, updates, mainVars, fetchVars, giVars, updVars, vi,
                 serviceTable, sellsyInvoices>>

\* checkSellsyConnection: the probe request (sellsy.js 853-870); main,
\* lines 313-315
CheckSellsyConnection ==
  /\ pc = "probe"
  /\ \/ Resolves("connect", "") /\ pc' = "select" /\ UNCHANGED exitCode
     \/ Rejects("connect", "") /\ ConnectionFailed
  /\ UNCHANGED <<config, updates, mainVars, fetchVars, giVars, updVars, vi,
                 serviceTable, sellsyInvoices>>

\* main, lines 317-322
GetActiveSubscriptions ==
  /\ pc = "select"
  /\ \/ /\ Resolves("select", "")
        /\ abonnements' = SelectActive(abonnementsTable)
        /\ ai' = 1
        /\ invoicesGenerated' = 0
        /\ pc' = "loop"
        /\ UNCHANGED exitCode
     \/ /\ Rejects("select", "")
        /\ Exit(1)
        /\ UNCHANGED <<abonnements, ai, invoicesGenerated>>
  /\ UNCHANGED <<config, updates, invoiceNeeded, fetchVars, giVars, updVars, vi,
                 serviceTable, sellsyInvoices>>

\* main, line 325
CheckIfInvoiceNeededStep ==
  /\ pc = "loop"
  /\ ai <= Len(abonnements)
  /\ invoiceNeeded' = CheckIfInvoiceNeeded(abonnements[ai].fields, today)
  /\ pc' = "checked"
  /\ UNCHANGED <<config, faults, updates, abonnements, ai, invoicesGenerated,
                 fetchVars, giVars, updVars, vi, exitCode, serviceTable,
                 sellsyInvoices, log>>

\* main, lines 327-340, and getServicesForSubscription up to its loop
GetServicesForSubscription ==
  /\ pc = "checked"
  /\ LET fields == abonnements[ai].fields
         serviceRecordIds == fields.ServicesLies
         idSellsyClient == fields.ID_Sellsy_abonne
     IN IF ~invoiceNeeded
          THEN NextAbonnement /\ UNCHANGED fetchVars
          ELSE IF Len(serviceRecordIds) = 0 \/ ~Truthy(idSellsyClient)
            THEN NextAbonnement /\ services' = <<>> /\ UNCHANGED si
            ELSE pc' = "find" /\ si' = 1 /\ services' = <<>> /\ UNCHANGED ai
  /\ UNCHANGED <<config, faults, updates, abonnements, invoiceNeeded,
                 invoicesGenerated, giVars, updVars, vi, exitCode, serviceTable,
                 sellsyInvoices, log>>

\* getServicesForSubscription: the end of the body of its loop
NextLink == si' = si + 1 /\ UNCHANGED <<pc, exitCode>>

\* A mutant of the catch of getServicesForSubscription: the error leaves the
\* function and reaches the catch of main.
CatchFindErrorRethrown == Exit(1) /\ UNCHANGED <<si, services>>

\* getServicesForSubscription: the catch around serviceTable.find logs the
\* error and the loop goes on (lines 482-484).
CatchFindError == NextLink /\ UNCHANGED services

\* getServicesForSubscription, the body of its loop (lines 441-485)
FindService ==
  /\ pc = "find"
  /\ si <= Len(abonnements[ai].fields.ServicesLies)
  /\ LET recordId == abonnements[ai].fields.ServicesLies[si]
         idSellsyClient == abonnements[ai].fields.ID_Sellsy_abonne
     IN \/ /\ Resolves("find", recordId)
           /\ services' =
                IF IsValidService(serviceTable[recordId], idSellsyClient)
                  THEN Append(services, [id |-> recordId, fields |-> serviceTable[recordId]])
                  ELSE services
           /\ NextLink
        \/ /\ Rejects("find", recordId)
           /\ CatchFindError
  /\ UNCHANGED <<config, updates, mainVars, giVars, updVars, vi, serviceTable,
                 sellsyInvoices>>

\* getServicesForSubscription returns; main, lines 337-342;
\* generateInvoicesForServices, lines 495-500
ReturnServices ==
  /\ pc = "find"
  /\ si > Len(abonnements[ai].fields.ServicesLies)
  /\ IF Len(services) = 0
       THEN NextAbonnement /\ UNCHANGED <<vi, invoicesGenerated>>
       ELSE IF ~Truthy(abonnements[ai].fields.ID_Sellsy_abonne)
         THEN NextAbonnement /\ invoicesGenerated' = invoicesGenerated + 1 /\ UNCHANGED vi
         ELSE pc' = "service" /\ vi' = 1 /\ UNCHANGED <<ai, invoicesGenerated>>
  /\ UNCHANGED <<config, faults, updates, abonnements, invoiceNeeded, fetchVars,
                 giVars, updVars, exitCode, serviceTable, sellsyInvoices, log>>

\* generateInvoicesForServices, lines 502-531, and generateInvoice up to its
\* first request (sellsy.js 268-274, 748-753); main, line 343, after the loop
BeginService ==
  /\ pc = "service"
  /\ IF vi > Len(services)
       THEN /\ NextAbonnement
            /\ invoicesGenerated' = invoicesGenerated + 1
            /\ UNCHANGED <<vi, exitCode, updVars>>
       ELSE LET fields == services[vi].fields
                idSellsyClient == abonnements[ai].fields.ID_Sellsy_abonne
            IN /\ UNCHANGED <<ai, invoicesGenerated>>
               /\ IF ~HasOccurrences(fields) \/ ~HasSellsyId(fields)
                    THEN NextService /\ UNCHANGED <<exitCode, updVars>>
                    ELSE IF ParametersMissing(idSellsyClient, fields.NomDuService, fields.PrixHT)
                      THEN CatchInvoiceError
                      ELSE pc' = "paymentMethod" /\ UNCHANGED <<vi, exitCode, updVars>>
  /\ paymentMethodId' = FALSE
  /\ invoice' = 0
  /\ UNCHANGED <<config, faults, updates, abonnements, invoiceNeeded, fetchVars,
                 serviceTable, sellsyInvoices, log>>

\* generateInvoice: findPaymentMethodByName and the numeric conversions
\* (sellsy.js 276-299 in the direct-debit draft, 755-771 in the gocardless draft)
FindPaymentMethod ==
  /\ pc = "paymentMethod"
  /\ LET id == services[vi].id
         fields == services[vi].fields
         idSellsyClient == abonnements[ai].fields.ID_Sellsy_abonne
     IN \/ /\ Resolves("paymentMethod", id)
           /\ paymentMethodId' = TRUE
           /\ IF StrictDraft
                   /\ NumericCheckThrows(idSellsyClient, fields.PrixHT, TaxRateOf(fields))
                THEN CatchInvoiceError
                ELSE pc' = "create" /\ UNCHANGED <<vi, exitCode, updVars>>
        \/ /\ Rejects("paymentMethod", id)
           /\ paymentMethodId' = FALSE
           /\ IF StrictDraft
                THEN CatchInvoiceError
                ELSE pc' = "create" /\ UNCHANGED <<vi, exitCode, updVars>>
  /\ UNCHANGED <<config, updates, mainVars, fetchVars, invoice, serviceTable,
                 sellsyInvoices>>

\* generateInvoice: sellsyRequest('post', '/invoices', invoiceData)
\* (sellsy.js 326-329, 812-814)
CreateInvoice ==
  /\ pc = "create"
  /\ LET id == services[vi].id
     IN \/ /\ Resolves("create", id)
           /\ sellsyInvoices' = Append(sellsyInvoices,
                                  [service |-> id, validated |-> FALSE, run |-> run,
                                   date |-> today,
                                   row |-> InvoiceRow(services[vi].fields)])
           /\ invoice' = Len(sellsyInvoices) + 1
           /\ pc' = IF StrictDraft THEN "configureFind" ELSE "validate"
           /\ UNCHANGED <<vi, exitCode, updVars>>
        \/ /\ Rejects("create", id)
           /\ CatchInvoiceError
           /\ UNCHANGED <<sellsyInvoices, invoice>>
  /\ UNCHANGED <<config, updates, mainVars, fetchVars, paymentMethodId, serviceTable>>

\* The configuration of the payment failed.  configureDirectDebitPayment
\* returns false from its catch (sellsy.js 248-255) and generateInvoice goes
\* on; configureGoCardlessPayment throws the error again (part_002 215-218)
\* and generateInvoice with it (part_002 306-309).
ConfigureFailed ==
  IF sellsyDraft = "configure-gocardless"
    THEN CatchInvoiceError
    ELSE pc' = "validate" /\ UNCHANGED <<vi, exitCode, updVars>>

\* configureDirectDebitPayment, configureGoCardlessPayment:
\* findPaymentMethodByName (sellsy.js 229-233, part_002 203-204)
ConfigureFindPaymentMethod ==
  /\ pc = "configureFind"
  /\ \/ /\ Resolves("configureFind", services[vi].id)
        /\ pc' = "configurePost"
        /\ UNCHANGED <<vi, exitCode, updVars>>
     \/ /\ Rejects("configureFind", services[vi].id)
        /\ ConfigureFailed
  /\ UNCHANGED <<config, updates, mainVars, fetchVars, giVars, serviceTable,
                 sellsyInvoices>>

\* configureDirectDebitPayment, configureGoCardlessPayment: the
\* payment-details request (sellsy.js 244-247, part_002 206-211)
ConfigurePaymentDetails ==
  /\ pc = "configurePost"
  /\ \/ /\ Resolves("payment-details", services[vi].id)
        /\ pc' = "validate"
        /\ UNCHANGED <<vi, exitCode, updVars>>
     \/ /\ Rejects("payment-details", services[vi].id)
        /\ ConfigureFailed
  /\ UNCHANGED <<config, updates, mainVars, fetchVars, giVars, serviceTable,
                 sellsyInvoices>>

\* generateInvoice: the validate request and the return of the invoice
\* (sellsy.js 334-341 in the direct-debit draft, 816-835 in the gocardless
\* draft, whose catch keeps the invoice); index.js 531-536
ValidateInvoice ==
  /\ pc = "validate"
  /\ LET id == services[vi].id
     IN \/ /\ Resolves("validate", id)
           /\ sellsyInvoices' = [sellsyInvoices EXCEPT ![invoice].validated = TRUE]
           /\ IF StrictDraft
                THEN CallUpdate(id)
                ELSE pc' = "gocardless" /\ UNCHANGED updVars
           /\ UNCHANGED <<vi, exitCode>>
        \/ /\ Rejects("validate", id)
           /\ UNCHANGED sellsyInvoices
           /\ IF StrictDraft
                THEN CatchInvoiceError
                ELSE CallUpdate(id) /\ UNCHANGED <<vi, exitCode>>
  /\ UNCHANGED <<config, updates, mainVars, fetchVars, giVars, serviceTable>>

\* generateInvoice of the gocardless draft: processInvoiceWithGoCardless, whose
\* error is caught (sellsy.js 821-828); index.js 531-536
ProcessInvoiceWithGoCardless ==
  /\ pc = "gocardless"
  /\ \/ Resolves("payment", services[vi].id)
     \/ Rejects("payment", services[vi].id)
  /\ CallUpdate(services[vi].id)
  /\ UNCHANGED <<config, updates, mainVars, fetchVars, giVars, vi, exitCode,
                 serviceTable, sellsyInvoices>>

\* A mutant of RecordRead: the copy read by getServicesForSubscription is
\* used again.
RecordReadFromCopy(id) == services[vi].fields

\* serviceTable.find(serviceId) resolves with the record as it is stored.
RecordRead(id) == serviceTable[id]

\* updateServiceOccurrences: serviceTable.find (index.js 547-554)
UpdateFind ==
  /\ pc = "updateFind"
  /\ \/ /\ Resolves("updateFind", serviceId)
        /\ service' = RecordRead(serviceId)
        /\ pc' = "updateWrite"
        /\ UNCHANGED vi
     \/ /\ Rejects("updateFind", serviceId)
        /\ CatchUpdateError
        /\ UNCHANGED service
  /\ UNCHANGED <<config, updates, mainVars, fetchVars, giVars, serviceId, exitCode,
                 serviceTable, sellsyInvoices>>

\* updateServiceOccurrences: serviceTable.update (index.js 556-565)
UpdateWrite ==
  /\ pc = "updateWrite"
  /\ \/ /\ Resolves("update", serviceId)
        /\ serviceTable' = [serviceTable EXCEPT
                              ![serviceId] = ApplyUpdate(@, UpdateFields(service))]
        /\ updates' = [updates EXCEPT ![serviceId] = @ + 1]
        /\ ReturnFromUpdate
     \/ /\ Rejects("update", serviceId)
        /\ UNCHANGED <<serviceTable, updates>>
        /\ CatchUpdateError
  /\ UNCHANGED <<config, mainVars, fetchVars, giVars, updVars, exitCode,
                 sellsyInvoices>>

\* main, line 346: the loop is over, the summary is logged, the process ends
Finish ==
  /\ pc = "loop"
  /\ ai > Len(abonnements)
  /\ Exit(0)
  /\ UNCHANGED <<config, faults, updates, mainVars, fetchVars, giVars, updVars, vi,
                 serviceTable, sellsyInvoices, log>>

\* The scheduler, or a person, starts the job again: the same day or later.
NewRun ==
  /\ pc = "exited"
  /\ caller = "main"
  /\ run < MaxRuns
  /\ run' = run + 1
  /\ today' \in {t \in RunDates : DayOfYear(t) >= DayOfYear(today)}
  /\ pc' = "start"
  /\ exitCode' = -1
  /\ abonnements' = <<>> /\ ai' = 1 /\ invoiceNeeded' = FALSE /\ invoicesGenerated' = 0
  /\ si' = 1 /\ services' = <<>> /\ vi' = 1
  /\ paymentMethodId' = FALSE /\ invoice' = 0
  /\ serviceId' = "" /\ service' = NoFields
  /\ log' = <<>>
  /\ UNCHANGED <<env, sellsyDraft, caller, faults, abonnementsTable, serviceTable,
                 sellsyInvoices, updates, calls, cacheVars, reqVars, outVars>>

\* updateServiceOccurrences(id) called on its own, as a unit test does.
CallUpdateServiceOccurrences ==
  /\ pc = "idle"
  /\ caller = "test"
  /\ calls < MaxCalls
  /\ calls' = calls + 1
  /\ \E id \in ServiceIds : CallUpdate(id)
  /\ log' = <<>>
  /\ UNCHANGED <<env, sellsyDraft, caller, faults, today, abonnementsTable, run,
                 mainVars, fetchVars, giVars, vi, exitCode, serviceTable,
                 sellsyInvoices, updates, cacheVars, reqVars, outVars>>

(***************************************************************************)
(* sellsyRequest and getAccessToken of src/src/sellsy.js, step by step.    *)
(* In the runs above one Sellsy call is one step; here a call is followed  *)
(* through its attempts: the test of the credentials, the token cache, the *)
(* request to the token endpoint, the request to the API, the catch.       *)
(* sellsyDraft = "direct-debit" is sellsyRequest of lines 88-153, and      *)
(* "gocardless" that of lines 456-498.                                     *)
(***************************************************************************)
MAX_RETRIES == 3

\* The margin of 5 minutes, in milliseconds.
Margin == 300000

Seconds(s) == s * 1000

\* Bounds of the model: the clock ticks and the calls of sellsyRequest.
MaxTicks == 4

MaxRequests == 2

\* The tokens the token endpoint issues at most.
MaxTokens == 4

\* The instants at which the clock is read, 100 seconds apart.
Instants == {Seconds(100 * t) : t \in 10..(10 + MaxTicks)}

\* expires_in of the answers of the token endpoint, in seconds.
ExpiresIn == {300, 400, 600}

\* The HTTP statuses with which the API refuses a request.
Statuses == {400, 401, 404, 500}

\* The variables of the job, which a call of sellsyRequest leaves alone.
jobVars == <<env, sellsyDraft, caller, faults, today, abonnementsTable, serviceTable,
             pc, abonnements, ai, invoiceNeeded, si, services, vi, paymentMethodId,
             invoice, serviceId, service, invoicesGenerated, exitCode,
             sellsyInvoices, log, updates, calls, run, outVars>>

\* A mutant of TokenExpiration: no margin.
TokenExpirationNoMargin(t, expires_in) == t + Seconds(expires_in)

\* getAccessToken: Date.now() + (expires_in * 1000) - 300000
TokenExpiration(t, expires_in) == t + Seconds(expires_in) - Margin

\* A mutant of TokenValid: the cache is still used at the stored expiry.
TokenValidUntilExpiry ==
  accessToken # 0 /\ tokenExpiration # 0 /\ tokenExpiration >= dateNow

\* getAccessToken: accessToken && tokenExpiration && tokenExpiration > Date.now()
TokenValid == accessToken # 0 /\ tokenExpiration # 0 /\ tokenExpiration > dateNow

\* What sellsyRequest catches.  axios gives the error of an answer 4xx the
\* code ERR_BAD_REQUEST and that of an answer 5xx the code ERR_BAD_RESPONSE;
\* an error without answer has no status (0 here); the Error that
\* getAccessToken throws after its last attempt has neither status nor code.
AxiosCode(status) == IF status < 500 THEN "ERR_BAD_REQUEST" ELSE "ERR_BAD_RESPONSE"

HttpError(status) == [status |-> status, code |-> AxiosCode(status)]

NetworkError == [status |-> 0, code |-> "ECONNRESET"]

TokenError == [status |-> 0, code |-> ""]

\* The answer 200, and no answer yet.
Ok == [status |-> 200, code |-> ""]

NoAnswer == [status |-> 0, code |-> "none"]

\* A mutant of CanRetry: one more attempt.
CanRetryOnceMore(n) == n < MAX_RETRIES

\* retryCount < MAX_RETRIES - 1
CanRetry(n) == n < MAX_RETRIES - 1

\* A mutant of Retryable: every error is retried.
RetryableAlways(e) == TRUE

\* The second test of the catch of sellsyRequest: line 145,
\* error.code !== 'ERR_BAD_REQUEST'; line 492, error.response?.status !== 400.
Retryable(e) ==
  IF sellsyDraft = "gocardless"
    THEN e.status # 400
    ELSE e.code # "ERR_BAD_REQUEST"

\* A mutant of ClearToken: the cache is kept.
ClearTokenNot == UNCHANGED cacheVars

\* accessToken = null; tokenExpiration = null
ClearToken == accessToken' = 0 /\ tokenExpiration' = 0 /\ expiresAt' = 0

\* A mutant of Retry: the next attempt does not count.
RetryWithSameCount == rq' = "begin" /\ UNCHANGED retryCount

\* return sellsyRequest(method, endpoint, data, retryCount + 1)
Retry == rq' = "begin" /\ retryCount' = retryCount + 1

\* throw error
Throw == rq' = "thrown" /\ UNCHANGED retryCount

\* The catch of sellsyRequest (lines 113-152, 474-497).
CatchRequestError(e) ==
  /\ answer' = e
  /\ IF e.status = 401
       THEN /\ ClearToken
            /\ IF CanRetry(retryCount) THEN Retry ELSE Throw
       ELSE /\ UNCHANGED cacheVars
            /\ IF CanRetry(retryCount) /\ Retryable(e) THEN Retry ELSE Throw

\* A caller calls sellsyRequest(method, endpoint, data): retryCount = 0.
CallSellsyRequest ==
  /\ rq \in {"idle", "returned", "thrown"}
  /\ requests < MaxRequests
  /\ requests' = requests + 1
  /\ rq' = "begin"
  /\ retryCount' = 0
  /\ tokenRetry' = 0
  /\ token' = 0
  /\ sends' = 0
  /\ posts' = 0
  /\ answer' = NoAnswer
  /\ UNCHANGED <<jobVars, cacheVars, dateNow, issued, rejected>>

\* sellsyRequest: checkSellsyCredentials, which throws outside the try, and
\* the test of the cache that opens getAccessToken (lines 457-460, 398-400).
GetAccessToken ==
  /\ rq = "begin"
  /\ IF CredentialsMissing(env)
       THEN rq' = "thrown" /\ UNCHANGED <<token, tokenRetry>>
       ELSE IF TokenValid
         THEN rq' = "send" /\ token' = accessToken /\ UNCHANGED tokenRetry
         ELSE rq' = "token" /\ tokenRetry' = 0 /\ UNCHANGED token
  /\ UNCHANGED <<jobVars, cacheVars, dateNow, retryCount, answer, sends, posts,
                 issued, rejected, requests>>

\* getAccessToken: the request to the token endpoint (lines 402-435).  The
\* endpoint issues a token, or the request fails or its answer holds no
\* token; getAccessToken then calls itself, and finds the cache as it was,
\* or throws after its last attempt into the catch of sellsyRequest.
PostAccessTokens ==
  /\ rq = "token"
  /\ posts' = posts + 1
  /\ \/ \E expires_in \in ExpiresIn :
          /\ issued < MaxTokens
          /\ issued' = issued + 1
          /\ accessToken' = issued + 1
          /\ tokenExpiration' = TokenExpiration(dateNow, expires_in)
          /\ expiresAt' = dateNow + Seconds(expires_in)
          /\ token' = issued + 1
          /\ rq' = "send"
          /\ UNCHANGED <<retryCount, tokenRetry, answer>>
     \/ IF CanRetry(tokenRetry)
          THEN /\ tokenRetry' = tokenRetry + 1
               /\ UNCHANGED <<cacheVars, rq, retryCount, answer, token, issued>>
          ELSE /\ CatchRequestError(TokenError)
               /\ UNCHANGED <<tokenRetry, token, issued>>
  /\ UNCHANGED <<jobVars, dateNow, sends, rejected, requests>>

\* sellsyRequest: axios(config) with the token (lines 461-473), and the
\* catch when the API refuses the request or does not answer.
AxiosRequest ==
  /\ rq = "send"
  /\ sends' = sends + 1
  /\ \/ /\ answer' = Ok
        /\ rq' = "returned"
        /\ UNCHANGED <<cacheVars, retryCount, rejected>>
     \/ \E status \in Statuses :
          /\ CatchRequestError(HttpError(status))
          /\ rejected' = IF status = 401 THEN rejected \cup {token} ELSE rejected
     \/ /\ CatchRequestError(NetworkError)
        /\ UNCHANGED rejected
  /\ UNCHANGED <<jobVars, dateNow, tokenRetry, token, posts, issued, requests>>

\* Time passes: between two calls, and before an attempt (the waits of 2
\* and 3 seconds, and whatever the caller awaits).  The clock is read by the
\* test of the cache and when the token endpoint answers.
Tick ==
  /\ rq \notin {"token", "send"}
  /\ dateNow' = dateNow + Seconds(100)
  /\ dateNow' \in Instants
  /\ UNCHANGED <<jobVars, cacheVars, rq, retryCount, tokenRetry, token, answer,
                 sends, posts, issued, rejected, requests>>

\* The module sellsy.js is loaded: no token, no call yet.
ModuleLoaded ==
  /\ accessToken = 0 /\ tokenExpiration = 0 /\ expiresAt = 0
  /\ dateNow = Seconds(1000)
  /\ rq = "idle"
  /\ retryCount = 0 /\ tokenRetry = 0 /\ token = 0
  /\ answer = NoAnswer
  /\ sends = 0 /\ posts = 0 /\ issued = 0 /\ rejected = {} /\ requests = 0

(***************************************************************************)
(* Initial states: the two tables as people may have filled them in.       *)
(***************************************************************************)
Abonnement(statut, jour, client, links) ==
  [Statut |-> statut, JourDeFacturation |-> jour, ID_Sellsy_abonne |-> client,
   ServicesLies |-> links, DateDeDebut |-> Undefined]

\* A value of the field 'Date de debut' (README.md, table Abonnements).
DateValue(t) == [k |-> "date", month |-> t.month, day |-> t.day]

StartingOn(a, t) == [a EXCEPT !.DateDeDebut = DateValue(t)]

\* A service that passes every test, with the counters given.
ValidService(client, total, mois, restantes) ==
  [Actif |-> BoolTrue, Categorie |-> "Abonnement", ID_Sellsy_abonne |-> client,
   ID_Sellsy |-> "501", NomDuService |-> "Maintenance", PrixHT |-> Num(50),
   TauxTVA |-> Undefined, OccurrencesTotales |-> total, MoisFactures |-> mois,
   OccurrencesRestantes |-> restantes]

Client101 == Num(101)

Client202 == Num(202)

\* The same digits as Client101, held as text.
Client101Text == Str(<<"1", "0", "1">>)

\* Counters (total, elapsed, remaining) a service may hold.
CounterTriples ==
  {<<Num(1), Num(0), Num(1)>>, <<Num(2), Num(0), Num(2)>>, <<Num(7), Num(2), Num(5)>>,
   <<Num(3), Num(3), Num(0)>>, <<Num(3), Num(3), Num(2)>>, <<Num(3), Num(4), Num(-1)>>,
   <<Undefined, Undefined, Num(1)>>, <<Num(2), Undefined, Undefined>>}

FewCounterTriples == {<<Num(1), Num(0), Num(1)>>, <<Num(7), Num(2), Num(5)>>}

WithCounters(f, c) ==
  [f EXCEPT !.OccurrencesTotales = c[1], !.MoisFactures = c[2],
            !.OccurrencesRestantes = c[3]]

\* The fields the tests of getServicesForSubscription and
\* generateInvoicesForServices read, in every combination.
FilterSweep ==
  {[ValidService(c, Num(7), Num(2), Num(5)) EXCEPT
      !.Actif = a, !.Categorie = g, !.ID_Sellsy = i] :
     a \in {BoolTrue, "Actif", "Inactif", ""},
     g \in {"Abonnement", "Option"},
     c \in {Client101, Client202, Client101Text, Undefined},
     i \in {"501", ""}}

\* The fields generateInvoice reads.
InvoiceSweep ==
  {[ValidService(Client101, Num(7), Num(2), Num(5)) EXCEPT
      !.NomDuService = n, !.PrixHT = p, !.TauxTVA = v] :
     n \in {"Maintenance", ""},
     p \in {Num(50), Num(0), Undefined, Str(<<"4", "9">>), Str(<<"a", "b">>)},
     v \in {Undefined, Num(10), Num(0), Str(<<"x">>)}}

JourValues ==
  {Undefined, Num(0), Num(15), Num(30), Num(31), Num(32), Str(<<"1", "5">>),
   Str(<<"3", "0">>), Str(<<>>), Str(<<"a", "b">>)}

LinkLists == {<<>>, <<"recS1">>, <<"recS1", "recS2">>, <<"recS1", "recS1">>}

Drafts == {"direct-debit", "gocardless"}

\* With the draft whose configuration of the payment throws.
AllDrafts == Drafts \cup {"configure-gocardless"}

\* A world: what the run finds.
World(e, d, f, now, a1, a2, s1, s2) ==
  [env |-> e, draft |-> d, faults |-> f, today |-> now,
   abos |-> [id \in AboIds |-> IF id = "recA1" THEN a1 ELSE a2],
   svcs |-> [id \in ServiceIds |-> IF id = "recS1" THEN s1 ELSE s2]]

OtherAbonnement == Abonnement("Actif", Num(15), Client101, <<"recS2">>)

OtherService == ValidService(Client101, Num(7), Num(2), Num(5))

\* Calls may be rejected: few records, every draft, every link list.
FaultyWorlds ==
  {World(RequiredVars, d, f, April(15), Abonnement("Actif", Num(15), Client101, l),
         Abonnement(st, Num(15), Client101, <<"recS2">>),
         WithCounters(OtherService, c), OtherService) :
     d \in AllDrafts, f \in 1..MaxFaults, l \in LinkLists \ {<<>>},
     st \in {"Actif", "Inactif"}, c \in FewCounterTriples}

\* No call is rejected: the fields of the records vary.
ServiceWorlds ==
  {World(RequiredVars, d, 0, April(15), Abonnement("Actif", Num(15), Client101, l),
         OtherAbonnement, s1, OtherService) :
     d \in Drafts, l \in {<<"recS1">>, <<"recS1", "recS2">>},
     s1 \in FilterSweep \cup InvoiceSweep
            \cup {WithCounters(OtherService, c) : c \in CounterTriples}}

AbonnementWorlds ==
  {World(RequiredVars, d, 0, now, Abonnement(st, j, cl, l), OtherAbonnement,
         WithCounters(OtherService, c), OtherService) :
     d \in Drafts, now \in RunDates, st \in {"Actif", "Inactif"}, j \in JourValues,
     cl \in {Client101, Undefined}, l \in LinkLists, c \in FewCounterTriples}

NoEnvWorlds ==
  {World(e, d, 1, April(15), OtherAbonnement, OtherAbonnement, OtherService,
         OtherService) : d \in Drafts, e \in SUBSET RequiredVars \ {RequiredVars}}

Worlds == FaultyWorlds \cup ServiceWorlds \cup AbonnementWorlds \cup NoEnvWorlds

InitJob(w, who, at) ==
  /\ env = w.env
  /\ sellsyDraft = w.draft
  /\ caller = who
  /\ faults = w.faults
  /\ today = w.today
  /\ abonnementsTable = w.abos
  /\ serviceTable = w.svcs
  /\ pc = at
  /\ abonnements = <<>> /\ ai = 1 /\ invoiceNeeded = FALSE /\ invoicesGenerated = 0
  /\ si = 1 /\ services = <<>> /\ vi = 1
  /\ paymentMethodId = FALSE /\ invoice = 0
  /\ serviceId = "" /\ service = NoFields
  /\ exitCode = -1
  /\ sellsyInvoices = <<>>
  /\ log = <<>>
  /\ updates = [id \in ServiceIds |-> 0]
  /\ calls = 0
  /\ run = 1
  /\ stopped = {}
  /\ edits = 0

InitWorld(w, who, at) == InitJob(w, who, at) /\ ModuleLoaded

Init == \E w \in Worlds : InitWorld(w, "main", "start")

Run ==
  \/ CheckEnvironmentVariables
  \/ ConnectGetAccessToken
  \/ CheckSellsyConnection
  \/ GetActiveSubscriptions
  \/ CheckIfInvoiceNeededStep
  \/ GetServicesForSubscription
  \/ FindService
  \/ ReturnServices
  \/ BeginService
  \/ FindPaymentMethod
  \/ CreateInvoice
  \/ ConfigureFindPaymentMethod
  \/ ConfigurePaymentDetails
  \/ ValidateInvoice
  \/ ProcessInvoiceWithGoCardless
  \/ UpdateFind
  \/ UpdateWrite
  \/ Finish

Next == Run \/ NewRun

Spec == Init /\ [][Next]_vars


(***************************************************************************)
(* Properties of the run.                                                  *)
(***************************************************************************)
\* This step creates an invoice in Sellsy for the service.
Created(id) ==
  /\ Len(sellsyInvoices') = Len(sellsyInvoices) + 1
  /\ sellsyInvoices'[Len(sellsyInvoices')].service = id

\* This step writes the record of the service.
Written(id) == serviceTable'[id] # serviceTable[id] \/ updates'[id] # updates[id]

\* The calls of the run for invoices and counters, in order.
ServiceCalls == SelectSeq(log, LAMBDA e : e.op \in {"create", "validate", "update"})

NoCallRejected == \A i \in DOMAIN log : log[i].ok

UpdatedThisRun(id) ==
  \E i \in DOMAIN log : log[i] = [op |-> "update", svc |-> id, ok |-> TRUE]

\* C1: when Sellsy rejects the creation request the step writes nothing to
\* the services table, the process does not exit and the loop is at the next
\* service; and a record is written only for a service whose invoice was
\* created in the same iteration.
C1_FailedCreationWritesNothing ==
  [][\A id \in ServiceIds :
       /\ log' = Append(log, [op |-> "create", svc |-> id, ok |-> FALSE])
            => /\ serviceTable' = serviceTable
               /\ pc' = "service"
               /\ vi' = vi + 1
               /\ exitCode' = exitCode
       /\ Written(id)
            => /\ invoice # 0
               /\ sellsyInvoices[invoice].service = id
               /\ sellsyInvoices[invoice].run = run]_vars

\* The creation for recS1 was rejected, its record was never written, and the
\* same subscription's next service has had its creation request sent.
C1_Witness ==
  /\ run = 1
  /\ ai = 1
  /\ updates["recS1"] = 0
  /\ \E i, j \in DOMAIN log :
       /\ i < j
       /\ log[i] = [op |-> "create", svc |-> "recS1", ok |-> FALSE]
       /\ log[j].op = "create"
       /\ log[j].svc = "recS2"

\* C2 as the specification states it: a record is written only for a service
\* whose invoice has been validated.
C2_NoDecrementWithoutValidation ==
  [][\A id \in ServiceIds :
       Written(id) => invoice # 0 /\ sellsyInvoices[invoice].validated]_vars

\* C4: every write of the job to a service's record is one update call that
\* sets the elapsed count and the remaining count, the remaining count being
\* max(0, total - new elapsed count) and never negative, and leaves the
\* other fields alone.
C4_BothCountersInOneUpdate ==
  [][\A id \in ServiceIds :
       Written(id) =>
         LET old == serviceTable[id]
             new == serviceTable'[id]
             T == IF new.OccurrencesTotales.k = "number"
                    THEN new.OccurrencesTotales.n ELSE 0
         IN /\ log' = Append(log, [op |-> "update", svc |-> id, ok |-> TRUE])
            /\ new.MoisFactures.k = "number"
            /\ new.MoisFactures # old.MoisFactures
            /\ new.OccurrencesRestantes.k = "number"
            /\ new.OccurrencesRestantes.n >= 0
            /\ new.OccurrencesRestantes.n =
                 (IF T - new.MoisFactures.n > 0 THEN T - new.MoisFactures.n ELSE 0)
            /\ \A f \in DOMAIN old \ {"MoisFactures", "OccurrencesRestantes"} :
                 new[f] = old[f]]_vars

\* The update call has just moved recS1 from (7, 2, 5) to (7, 3, 4).
C4_Witness ==
  /\ updates["recS1"] = 1
  /\ Len(log) > 0
  /\ log[Len(log)] = [op |-> "update", svc |-> "recS1", ok |-> TRUE]
  /\ serviceTable["recS1"].OccurrencesTotales = Num(7)
  /\ serviceTable["recS1"].MoisFactures = Num(3)
  /\ serviceTable["recS1"].OccurrencesRestantes = Num(4)

\* The run is over, no call was rejected, exactly one active subscription was
\* due, and its one linked service was read as valid with 5 remaining.
OneDueOneService(a, s) ==
  /\ pc = "exited"
  /\ exitCode = 0
  /\ NoCallRejected
  /\ abonnementsTable[a].Statut = "Actif"
  /\ abonnementsTable[a].JourDeFacturation = Num(today.day)
  /\ abonnementsTable[a].ServicesLies = <<s>>
  /\ \A b \in AboIds \ {a} :
       \/ abonnementsTable[b].Statut # "Actif"
       \/ abonnementsTable[b].JourDeFacturation = Undefined
       \/ /\ abonnementsTable[b].JourDeFacturation.k = "number"
          /\ abonnementsTable[b].JourDeFacturation.n # today.day
  /\ Len(services) = 1
  /\ services[1].id = s
  /\ services[1].fields.Actif \in {"Actif", BoolTrue}
  /\ services[1].fields.Categorie = "Abonnement"
  /\ services[1].fields.ID_Sellsy_abonne = abonnementsTable[a].ID_Sellsy_abonne
  /\ services[1].fields.ID_Sellsy # ""
  /\ services[1].fields.NomDuService # ""
  /\ services[1].fields.PrixHT.k = "number"
  /\ services[1].fields.PrixHT.n > 0
  /\ services[1].fields.TauxTVA.k \in {"undefined", "number"}
  /\ services[1].fields.MoisFactures.k = "number"
  /\ services[1].fields.OccurrencesRestantes = Num(5)

\* C5: with one active subscription due today, one linked valid service with
\* 5 remaining and every call succeeding, the run makes exactly one creation
\* call, one validation call and one update call for the service, in that
\* order, and the elapsed count ends one higher.
C5_OneInvoiceOneUpdateInOrder ==
  \A a \in AboIds, s \in ServiceIds :
    OneDueOneService(a, s) =>
      /\ ServiceCalls = <<[op |-> "create", svc |-> s, ok |-> TRUE],
                          [op |-> "validate", svc |-> s, ok |-> TRUE],
                          [op |-> "update", svc |-> s, ok |-> TRUE]>>
      /\ serviceTable[s].MoisFactures = Num(services[1].fields.MoisFactures.n + 1)

\* Such a run is over, with three calls for the service.
C5_Witness ==
  /\ \E a \in AboIds, s \in ServiceIds : OneDueOneService(a, s)
  /\ Len(ServiceCalls) = 3

\* C6: an invoice is created for a service, and its record written, only
\* while a subscription is processed whose client id is the service's own
\* non-empty client id.
C6_OnlySameClientInvoiced ==
  [][\A id \in ServiceIds :
       (Created(id) \/ Written(id)) =>
         /\ Truthy(serviceTable[id].ID_Sellsy_abonne)
         /\ serviceTable[id].ID_Sellsy_abonne = abonnements[ai].fields.ID_Sellsy_abonne]_vars

\* The run is over: recS1, linked from the due subscription of client 101 and
\* holding the client id as the text "101", was fetched and neither invoiced
\* nor written.
C6_Witness ==
  /\ pc = "exited"
  /\ exitCode = 0
  /\ today = April(15)
  /\ abonnementsTable["recA1"] = Abonnement("Actif", Num(15), Client101, <<"recS1">>)
  /\ serviceTable["recS1"] = ValidService(Client101Text, Num(7), Num(2), Num(5))
  /\ \E i \in DOMAIN log : log[i] = [op |-> "find", svc |-> "recS1", ok |-> TRUE]
  /\ \A i \in DOMAIN sellsyInvoices : sellsyInvoices[i].service # "recS1"
  /\ updates["recS1"] = 0

C8_NoInvoiceAfterReachingZero ==
  [][\A id \in ServiceIds :
       Created(id) =>
         ~(/\ updates[id] > 0
           /\ serviceTable[id].OccurrencesRestantes = Num(0)
           /\ ~UpdatedThisRun(id))]_vars

\* The second run is over: recS1, brought to 0 by the first run, was fetched
\* again from a due subscription and no invoice was created for it.
C8_Witness ==
  /\ run = 2
  /\ pc = "exited"
  /\ exitCode = 0
  /\ today = April(15)
  /\ abonnementsTable["recA1"].Statut = "Actif"
  /\ abonnementsTable["recA1"].JourDeFacturation = Num(15)
  /\ serviceTable["recS1"] = ValidService(Client101, Num(1), Num(1), Num(0))
  /\ updates["recS1"] = 1
  /\ \E i \in DOMAIN log : log[i] = [op |-> "find", svc |-> "recS1", ok |-> TRUE]
  /\ ~UpdatedThisRun("recS1")
  /\ \A i \in DOMAIN sellsyInvoices :
       sellsyInvoices[i].service = "recS1" => sellsyInvoices[i].run = 1

\* This step sends the request op for the service.
Requested(op, id) ==
  \E ok \in BOOLEAN : log' = Append(log, [op |-> op, svc |-> id, ok |-> ok])

\* C13: the due check, the lookup of a service, the creation of an invoice
\* and the write of a counter happen only on behalf of a subscription whose
\* 'Statut' is 'Actif'.
C13_OnlyActiveSubscriptionsProcessed ==
  [][(\/ pc' = "checked"
      \/ \E id \in ServiceIds : Requested("find", id) \/ Created(id) \/ Written(id))
       => abonnementsTable[abonnements[ai].id].Statut = "Actif"]_vars

\* The run is over: recA1, not active, has today as its billing day and links
\* the valid service recS1, which was neither looked up, invoiced nor written.
C13_Witness ==
  /\ pc = "exited"
  /\ exitCode = 0
  /\ today = April(15)
  /\ abonnementsTable["recA1"] = Abonnement("Inactif", Num(15), Client101, <<"recS1">>)
  /\ serviceTable["recS1"] = OtherService
  /\ \A i \in DOMAIN log : log[i].svc # "recS1"
  /\ \A i \in DOMAIN sellsyInvoices : sellsyInvoices[i].service # "recS1"
  /\ updates["recS1"] = 0

\* The services getServicesForSubscription must hold after its first n
\* lookups: those that were found and pass the three tests, in link order.
ExpectedServices(n) ==
  LET links == abonnements[ai].fields.ServicesLies
      base == Len(log) - n
      found == [k \in 1..n |->
                  [id |-> links[k], fields |-> serviceTable[links[k]],
                   ok |-> log[base + k].ok]]
      kept == SelectSeq(found, LAMBDA c :
                /\ c.ok
                /\ c.fields.Actif \in {BoolTrue, "Actif"}
                /\ c.fields.Categorie = "Abonnement"
                /\ c.fields.ID_Sellsy_abonne = abonnements[ai].fields.ID_Sellsy_abonne)
  IN [k \in 1..Len(kept) |-> [id |-> kept[k].id, fields |-> kept[k].fields]]

C16_FailedLookupSkipsOneService ==
  [][/\ \A id \in ServiceIds :
          log' = Append(log, [op |-> "find", svc |-> id, ok |-> FALSE])
            => /\ pc' = "find"
               /\ si' = si + 1
               /\ services' = services
               /\ exitCode' = exitCode
     /\ (pc = "find" /\ pc' # "find")
          => si > Len(abonnements[ai].fields.ServicesLies)]_vars

\* The lookup of recS1 failed, the lookup of recS2 followed, and recS2 has
\* been invoiced for the same subscription.
C16_Witness ==
  /\ run = 1
  /\ ai = 1
  /\ ai \in DOMAIN abonnements
  /\ abonnements[ai].fields.ServicesLies = <<"recS1", "recS2">>
  /\ \E i, j \in DOMAIN log :
       /\ i + 1 \in DOMAIN log
       /\ i + 1 < j
       /\ log[i] = [op |-> "find", svc |-> "recS1", ok |-> FALSE]
       /\ log[i + 1] = [op |-> "find", svc |-> "recS2", ok |-> TRUE]
       /\ log[j] = [op |-> "create", svc |-> "recS2", ok |-> TRUE]

\* C17: when one of the four required settings is missing, the run is at its
\* start or has exited with a status other than zero, and no subscription
\* was queried, no request sent to Airtable or Sellsy, no invoice created
\* and no counter written.
C17_MissingSettingEndsBeforeAnyWork ==
  (\E v \in {"AIRTABLE_API_KEY", "AIRTABLE_BASE_ID", "SELLSY_CLIENT_ID",
             "SELLSY_CLIENT_SECRET"} : v \notin env)
    => /\ pc \in {"start", "exited"}
       /\ pc = "exited" => exitCode \notin {-1, 0}
       /\ log = <<>>
       /\ abonnements = <<>>
       /\ sellsyInvoices = <<>>
       /\ \A id \in ServiceIds : updates[id] = 0

\* AIRTABLE_BASE_ID alone is missing and the process has exited with status 1.
C17_Witness ==
  /\ env = {"AIRTABLE_API_KEY", "SELLSY_CLIENT_ID", "SELLSY_CLIENT_SECRET"}
  /\ pc = "exited"
  /\ exitCode = 1
  /\ log = <<>>

\* The startup check of the connection fails in this step: the token request
\* or the probe request is rejected.
ConnectivityCheckFails ==
  \/ log' = Append(log, [op |-> "token", svc |-> "", ok |-> FALSE])
  \/ log' = Append(log, [op |-> "connect", svc |-> "", ok |-> FALSE])

\* C18: when the token request or the probe request of the startup check is
\* rejected, the process exits with status 1; the run has made no other
\* request, and no invoice is created and no record written.
C18_FailedConnectivityCheckEndsRun ==
  [][ConnectivityCheckFails
       => /\ pc' = "exited"
          /\ exitCode' = 1
          /\ \A i \in DOMAIN log' : log'[i].op \in {"token", "connect"}
          /\ abonnements' = <<>>
          /\ sellsyInvoices' = sellsyInvoices
          /\ serviceTable' = serviceTable]_vars

\* The token was obtained, the probe request was rejected and the process has
\* exited with status 1.
C18_Witness ==
  /\ pc = "exited"
  /\ exitCode = 1
  /\ log = <<[op |-> "token", svc |-> "", ok |-> TRUE],
             [op |-> "connect", svc |-> "", ok |-> FALSE]>>

\* C20 as the specification states it: when the lookup of the payment
\* method or the payment-details request made for an invoice already
\* created is rejected, generateInvoice goes on to the validation request.
C20_ConfigurationFailureIsSwallowed ==
  [][\A id \in ServiceIds :
       (\/ log' = Append(log, [op |-> "configureFind", svc |-> id, ok |-> FALSE])
        \/ log' = Append(log, [op |-> "payment-details", svc |-> id, ok |-> FALSE]))
         => pc' = "validate"]_vars

(***************************************************************************)
(* One run, in which every await that is reached returns or throws.        *)
(***************************************************************************)
InitLive == \E w \in FaultyWorlds : InitWorld(w, "main", "start")

SpecLive == InitLive /\ [][Run]_vars /\ WF_vars(Run)

\* The startup checks of the run have passed.
StartupPassed ==
  \E i \in DOMAIN log : log[i] = [op |-> "connect", svc |-> "", ok |-> TRUE]

\* The query of the active subscriptions has succeeded in the run.
SubscriptionsFetched ==
  \E i \in DOMAIN log : log[i] = [op |-> "select", svc |-> "", ok |-> TRUE]

\* C19 as the specification states it: a run whose startup checks have passed
\* exits with status zero.
C19_ExitsZeroAfterStartup ==
  (pc = "exited" /\ StartupPassed) => exitCode = 0

\* C19, amended: a run whose startup checks have passed and whose query of
\* the active subscriptions has succeeded reaches its end, and it exits with
\* status zero whatever is rejected afterwards; when that query is rejected
\* the process exits with status 1.
C19_RunEndsWithZeroOnceSubscriptionsFetched ==
  /\ [](pc = "exited" /\ SubscriptionsFetched => exitCode = 0)
  /\ [][log' = Append(log, [op |-> "select", svc |-> "", ok |-> FALSE])
          => pc' = "exited" /\ exitCode' = 1]_vars
  /\ (SubscriptionsFetched ~> pc = "exited")

\* The run has exited with status zero although a lookup, a Sellsy request or
\* an update was rejected after the subscriptions were fetched.
C19_Witness ==
  /\ pc = "exited"
  /\ exitCode = 0
  /\ SubscriptionsFetched
  /\ \E i \in DOMAIN log : ~log[i].ok

(***************************************************************************)
(* The due-date check on every day of the year: one subscription, no       *)
(* linked service.                                                         *)
(***************************************************************************)
DueJourValues ==
  {Num(n) : n \in -1..32}
    \cup {Undefined, Str(<<"1", "5">>), Str(<<"3", "1">>), Str(<<>>), Str(<<"a", "b">>),
          Str(<<"1", "5", "a">>)}

\* The subscription starts on June 15, or has no start date.
DueStarts(a) == {a, StartingOn(a, [month |-> 6, day |-> 15])}

DueWorlds ==
  {World(RequiredVars, "gocardless", f, now, a,
         Abonnement("Inactif", Num(15), Client101, <<>>), OtherService, OtherService) :
     f \in {0, 1}, now \in ValidDates,
     a \in UNION {DueStarts(Abonnement("Actif", j, Client101, <<>>)) : j \in DueJourValues}}

InitDue == \E w \in DueWorlds : InitWorld(w, "main", "start")

NextDue ==
  \/ CheckEnvironmentVariables
  \/ ConnectGetAccessToken
  \/ CheckSellsyConnection
  \/ GetActiveSubscriptions
  \/ CheckIfInvoiceNeededStep
  \/ GetServicesForSubscription
  \/ Finish

SpecDue == InitDue /\ [][NextDue]_vars

\* The billing day of the subscription whose check has just returned.
JourChecked == abonnements[ai].fields.JourDeFacturation

LastDay == DaysInMonth(today.month)

C10_DueIffDayEqualsBillingDay ==
  (/\ pc = "checked"
   /\ JourChecked.k = "number"
   /\ JourChecked.n \in 1..31
   /\ JourChecked.n <= LastDay) => (invoiceNeeded <=> today.day = JourChecked.n)

\* Billing day 15 has been found due on April 15, and billing day 14 not due
\* on the same day in another run.
C10_Witness ==
  /\ pc = "checked"
  /\ today = April(15)
  /\ \/ JourChecked = Num(15) /\ invoiceNeeded
     \/ JourChecked = Num(14) /\ ~invoiceNeeded


(***************************************************************************)
(* updateServiceOccurrences called again and again on services whose       *)
(* elapsed count starts at 0.                                              *)
(***************************************************************************)
OccTotals == {Num(n) : n \in 0..MaxTotal} \cup {Undefined}

OccWorlds ==
  {World(RequiredVars, "gocardless", f, April(15), OtherAbonnement, OtherAbonnement,
         ValidService(Client101, total, mois, IF stored THEN total ELSE Undefined),
         ValidService(Client101, Num(2), Num(0), Num(2))) :
     f \in {0, MaxFaults}, total \in OccTotals, mois \in {Num(0), Undefined},
     stored \in BOOLEAN}

InitOcc == \E w \in OccWorlds : InitWorld(w, "test", "idle")

NextOcc ==
  \/ CallUpdateServiceOccurrences
  \/ UpdateFind
  \/ UpdateWrite

SpecOcc == InitOcc /\ [][NextOcc]_vars

\* C3: on a service that starts with total T and elapsed 0, after n calls of
\* updateServiceOccurrences whose two requests succeeded the elapsed count is
\* n and the remaining count is max(0, T - n).
C3_CountersAfterSuccessfulUpdates ==
  \A id \in ServiceIds :
    LET T == IF serviceTable[id].OccurrencesTotales.k = "number"
               THEN serviceTable[id].OccurrencesTotales.n ELSE 0
        n == updates[id]
    IN n > 0 =>
         /\ serviceTable[id].MoisFactures = Num(n)
         /\ serviceTable[id].OccurrencesRestantes = Num(IF T - n > 0 THEN T - n ELSE 0)

\* T = 12: the thirteenth successful call has left remaining at 0.
C3_Witness ==
  /\ serviceTable["recS1"].OccurrencesTotales = Num(12)
  /\ updates["recS1"] = 13
  /\ serviceTable["recS1"].MoisFactures = Num(13)
  /\ serviceTable["recS1"].OccurrencesRestantes = Num(0)

\* A text made of decimal digits only.
NumericText(v) ==
  v.k = "string" /\ Len(v.s) > 0 /\ \A i \in DOMAIN v.s : IsDigit(v.s[i])

\* C11 as the specification states it: a subscription whose billing day is
\* absent, is a text that is not a number, or is a number outside 1..31 is
\* not due, whatever the day.
C11_InvalidBillingDayNeverDue ==
  (/\ pc = "checked"
   /\ \/ JourChecked.k = "undefined"
      \/ JourChecked.k = "string" /\ ~NumericText(JourChecked)
      \/ JourChecked.k = "number" /\ JourChecked.n \notin 1..31) => ~invoiceNeeded

\* C12 as the specification states it: a subscription whose start date is
\* later than today is not due.
C12_NotDueBeforeStart ==
  (/\ pc = "checked"
   /\ abonnements[ai].fields.DateDeDebut.k = "date"
   /\ DayOfYear(abonnements[ai].fields.DateDeDebut) > DayOfYear(today)) => ~invoiceNeeded

(***************************************************************************)
(* generateInvoice and the payment method.                                 *)
(***************************************************************************)
\* C21 as the specification states it: when the search of the payment
\* method is rejected, generateInvoice goes on to the invoice-create
\* request, with no payment method.
C21_FailedPaymentSearchStillCreates ==
  [][\A id \in ServiceIds :
       log' = Append(log, [op |-> "paymentMethod", svc |-> id, ok |-> FALSE])
         => pc' = "create" /\ paymentMethodId' = FALSE]_vars

(***************************************************************************)
(* The summary of the run.                                                 *)
(***************************************************************************)
\* The invoices that generateInvoice returned in the current run: the
\* drafts that let the error of the validation through return the invoice
\* once it is validated, the gocardless draft once it is created.
GeneratedInRun ==
  {i \in DOMAIN sellsyInvoices :
     /\ sellsyInvoices[i].run = run
     /\ StrictDraft => sellsyInvoices[i].validated}

\* C22 as the specification states it: the count logged at the end of the
\* run is the number of services for which an invoice was generated in the
\* run.
C22_SummaryCountsGeneratedInvoices ==
  (pc = "exited" /\ exitCode = 0) => invoicesGenerated = Cardinality(GeneratedInRun)

(***************************************************************************)
(* The update of the counters fails.                                       *)
(***************************************************************************)
\* The re-read or the write of updateServiceOccurrences for the service is
\* rejected in this step.
UpdateFails(id) ==
  \/ log' = Append(log, [op |-> "updateFind", svc |-> id, ok |-> FALSE])
  \/ log' = Append(log, [op |-> "update", svc |-> id, ok |-> FALSE])

\* C23: when the re-read or the write of updateServiceOccurrences is
\* rejected, the invoices in Sellsy stay as they are, the record of the
\* service keeps its stored values, the function does not start again, the
\* process does not exit, and the loop of the run is at the next service.
C23_FailedUpdateIsSwallowed ==
  [][\A id \in ServiceIds :
       UpdateFails(id)
         => /\ sellsyInvoices' = sellsyInvoices
            /\ serviceTable' = serviceTable
            /\ updates' = updates
            /\ pc' \notin {"updateFind", "updateWrite", "exited"}
            /\ exitCode' = exitCode
            /\ caller = "main" => pc' = "service" /\ vi' = vi + 1]_vars

\* A run has ended with status zero in which an invoice was created for a
\* service, the write of its counters was rejected, and its record was
\* never written.
C23_Witness ==
  /\ pc = "exited"
  /\ exitCode = 0
  /\ \E id \in ServiceIds :
       /\ \E i \in DOMAIN sellsyInvoices :
            sellsyInvoices[i].service = id /\ sellsyInvoices[i].run = run
       /\ \E i \in DOMAIN log : log[i] = [op |-> "update", svc |-> id, ok |-> FALSE]
       /\ updates[id] = 0

(***************************************************************************)
(* What the job writes.                                                    *)
(***************************************************************************)
\* The fields of a service record that the job may write.
CounterFields == {"MoisFactures", "OccurrencesRestantes"}

\* This step leaves the subscriptions alone, creates and deletes no record,
\* and changes no field of a service other than the two counters.
WritesOnlyTheTwoCounters ==
  /\ abonnementsTable' = abonnementsTable
  /\ DOMAIN serviceTable' = DOMAIN serviceTable
  /\ \A id \in ServiceIds :
       /\ DOMAIN serviceTable'[id] = DOMAIN serviceTable[id]
       /\ \A f \in DOMAIN serviceTable[id] \ CounterFields :
            serviceTable'[id][f] = serviceTable[id][f]

\* The invoices of the service that were validated in Sellsy.
IssuedInvoices(id) ==
  {i \in DOMAIN sellsyInvoices :
     sellsyInvoices[i].service = id /\ sellsyInvoices[i].validated}

\* C24 as the specification states it: the job writes only the two counters
\* of a service record, and each write answers one more issued invoice of
\* the service.
C24_WritesTwoCountersOncePerIssuedInvoice ==
  [][/\ WritesOnlyTheTwoCounters
     /\ caller = "main" =>
          \A id \in ServiceIds :
            Written(id) => /\ updates'[id] = updates[id] + 1
                           /\ Cardinality(IssuedInvoices(id)) > updates[id]]_vars

\* The part of C24 on the fields, without the count of the invoices.
FrameOfTheJob == [][WritesOnlyTheTwoCounters]_vars

(***************************************************************************)
(* The numeric values of the invoice line.                                 *)
(***************************************************************************)
\* C25 as the specification states it: no invoice-create request is sent for
\* a service whose price does not parse as a number.
C25_NoCreateRequestForUnparsablePrice ==
  [][\A id \in ServiceIds :
       Requested("create", id) => ~IsNaN(ParseFloat(services[vi].fields.PrixHT))]_vars

\* The tax rate C26 states for a service: the value of 'Taux TVA' when it
\* is a number, 20 when it is absent or not a number.
StatedTaxRate(fields) ==
  IF fields.TauxTVA.k = "number" THEN fields.TauxTVA ELSE Num(20)

\* C26 as the specification states it: the tax rate on the row of every
\* invoice is the 'Taux TVA' of its service when that is a number and 20
\* otherwise.
C26_TaxRateIsFieldOrTwenty ==
  \A i \in DOMAIN sellsyInvoices :
    sellsyInvoices[i].row.tax_rate = StatedTaxRate(serviceTable[sellsyInvoices[i].service])

(***************************************************************************)
(* Calls of sellsyRequest, one after the other, while time passes.         *)
(***************************************************************************)
InitReq ==
  /\ \E d \in Drafts, e \in {RequiredVars, RequiredVars \ {"SELLSY_CLIENT_SECRET"}} :
       InitJob(World(e, d, 0, April(15), OtherAbonnement, OtherAbonnement,
                     OtherService, OtherService), "main", "start")
  /\ ModuleLoaded

NextReq ==
  \/ CallSellsyRequest
  \/ GetAccessToken
  \/ PostAccessTokens
  \/ AxiosRequest
  \/ Tick

SpecReq == InitReq /\ [][NextReq]_vars

\* An attempt of sellsyRequest fails in this step: getAccessToken throws
\* after its last attempt, or the API refuses the request or does not
\* answer.
AttemptFails == rq \in {"token", "send"} /\ rq' \in {"begin", "thrown"}

\* This step sends the request to the API and the API answers with the
\* status.
Answered(status) ==
  rq = "send" /\ sends' = sends + 1 /\ answer'.status = status

\* C27: a call of sellsyRequest sends its request at most 3 times, after at
\* most 2 retries, and an attempt that fails after 2 retries throws the
\* error, whatever the error.
C27_AtMostThreeAttempts ==
  /\ [](sends <= 3 /\ retryCount <= 2)
  /\ [][AttemptFails /\ retryCount = 2 => rq' = "thrown"]_vars

\* The request was sent three times, the API answered 500 each time, and the
\* error was thrown.
C27_Witness ==
  /\ rq = "thrown"
  /\ sends = 3
  /\ retryCount = 2
  /\ answer = HttpError(500)

\* C28: when the API answers 400 the error is thrown to the caller with no
\* further attempt; answered to the first attempt, the request was sent
\* exactly once.
C28_ValidationErrorIsNotRetried ==
  /\ [][Answered(400) => rq' = "thrown" /\ retryCount' = retryCount]_vars
  /\ [](rq = "thrown" /\ answer.status = 400 /\ retryCount = 0 => sends = 1)

\* The API answered 400 to the first attempt and the error was thrown, in
\* the draft that tests the code of the error.
C28_Witness ==
  /\ sellsyDraft = "direct-debit"
  /\ rq = "thrown"
  /\ answer = HttpError(400)
  /\ retryCount = 0
  /\ sends = 1

\* The token endpoint is to be contacted: no token is cached, or the time
\* has reached the expiry of the cached token minus the margin.
RefreshDue == accessToken = 0 \/ dateNow >= expiresAt - Margin

\* C29: getAccessToken goes to the token endpoint exactly when no token is
\* cached or the time has reached the expiry of the cached token minus 5
\* minutes; otherwise it returns the cached token and leaves the cache as
\* it is.
C29_TokenEndpointOnlyWhenRefreshDue ==
  /\ [][rq = "begin" /\ rq' \in {"token", "send"}
          => /\ rq' = "token" <=> RefreshDue
             /\ rq' = "send" => token' = accessToken
             /\ UNCHANGED cacheVars]_vars
  /\ [](rq = "token" => RefreshDue)

\* A second call of sellsyRequest is at its request with the token that the
\* first call obtained, and the token endpoint was contacted once.
C29_Witness ==
  /\ requests = 2
  /\ rq = "send"
  /\ issued = 1
  /\ token = accessToken
  /\ dateNow > Seconds(1000)

\* C30: when the API answers 401, the cached token and its expiry are
\* cleared and, unless it was the last attempt, the request is tried again;
\* no request is ever sent with a token that the API has answered with 401,
\* so the retry has a token obtained from the token endpoint after the 401.
C30_RejectedTokenIsClearedAndNotSentAgain ==
  /\ [][Answered(401)
          => /\ accessToken' = 0 /\ tokenExpiration' = 0
             /\ retryCount < 2 => rq' = "begin" /\ retryCount' = retryCount + 1]_vars
  /\ [](rq = "send" => token # 0 /\ token \notin rejected)
  /\ [](rq = "begin" /\ answer.status = 401 => accessToken = 0)

\* The API answered 401, the retry obtained a second token and its request
\* was accepted.
C30_Witness ==
  /\ rq = "returned"
  /\ retryCount = 1
  /\ rejected = {1}
  /\ token = 2
  /\ sends = 2

(***************************************************************************)
(* Runs that are stopped from outside.                                     *)
(***************************************************************************)
\* generateInvoice has returned a validated invoice for the service under
\* way and updateServiceOccurrences has not written yet (index.js 531-536);
\* the stored remaining count of the service is still positive.
BetweenInvoiceAndUpdate ==
  /\ pc \in {"gocardless", "updateFind", "updateWrite"}
  /\ invoice # 0
  /\ sellsyInvoices[invoice].validated
  /\ HasOccurrences(serviceTable[services[vi].id])

\* A mutant of StopLeaves: the counters of the service under way are
\* written before the process ends.
StopCompletesUpdate ==
  /\ UNCHANGED sellsyInvoices
  /\ IF pc \in {"gocardless", "updateFind", "updateWrite"}
       THEN LET id == services[vi].id
            IN /\ serviceTable' = [serviceTable EXCEPT
                                     ![id] = ApplyUpdate(@, UpdateFields(@))]
               /\ updates' = [updates EXCEPT ![id] = @ + 1]
       ELSE UNCHANGED <<serviceTable, updates>>

\* The job has no handler for its own end and keeps no journal: when the
\* process stops, what was written stays written and what was not is lost.
StopLeaves == UNCHANGED <<serviceTable, sellsyInvoices, updates>>

\* The process is stopped from outside at any point of a run.
StopProcess ==
  /\ caller = "main"
  /\ pc # "exited"
  /\ pc' = "exited"
  /\ exitCode' = 137
  /\ stopped' = IF BetweenInvoiceAndUpdate
                  THEN stopped \cup {[service |-> services[vi].id, date |-> today]}
                  ELSE stopped
  /\ StopLeaves
  /\ UNCHANGED <<edits, env, sellsyDraft, caller, faults, today, abonnementsTable, run,
                 calls, cacheVars, reqVars, mainVars, fetchVars, giVars, updVars,
                 vi, log>>

\* Few records, every draft, every link list; at most one call is rejected.
StopWorlds ==
  {World(RequiredVars, d, f, now, Abonnement("Actif", Num(15), Client101, l),
         OtherAbonnement, WithCounters(OtherService, c), OtherService) :
     d \in AllDrafts, f \in {0, 1}, now \in RunDates, l \in LinkLists \ {<<>>},
     c \in FewCounterTriples}

InitStop == \E w \in StopWorlds : InitWorld(w, "main", "start")

NextStop == Next \/ StopProcess

SpecStop == InitStop /\ [][NextStop]_vars

\* C31: a run stopped between the validation of the invoice of a service and
\* the update of its counters leaves the invoice in Sellsy and the record as
\* it was; and once a run of the same day has ended with status zero and
\* with no call rejected, Sellsy holds a second invoice of that day for the
\* service, created by a later run.
C31_StoppedRunIsBilledAgain ==
  /\ [][BetweenInvoiceAndUpdate /\ pc' = "exited" /\ exitCode' = 137
          => /\ serviceTable' = serviceTable
             /\ sellsyInvoices' = sellsyInvoices
             /\ [service |-> services[vi].id, date |-> today] \in stopped']_vars
  /\ [](\A s \in stopped :
          (pc = "exited" /\ exitCode = 0 /\ NoCallRejected /\ s.date = today)
            => \E i, j \in DOMAIN sellsyInvoices :
                 /\ i < j
                 /\ sellsyInvoices[i].service = s.service
                 /\ sellsyInvoices[j].service = s.service
                 /\ sellsyInvoices[i].date = today
                 /\ sellsyInvoices[j].date = today
                 /\ sellsyInvoices[i].validated
                 /\ sellsyInvoices[j].run > sellsyInvoices[i].run)

\* The first run was stopped before the update of recS1; the second run, the
\* same day, has ended with status zero: Sellsy holds two validated invoices
\* of that day for recS1 and its counters were written once.
C31_Witness ==
  /\ run = 2
  /\ pc = "exited"
  /\ exitCode = 0
  /\ [service |-> "recS1", date |-> today] \in stopped
  /\ updates["recS1"] = 1
  /\ \E i, j \in DOMAIN sellsyInvoices :
       /\ i < j
       /\ sellsyInvoices[i] = [sellsyInvoices[j] EXCEPT !.run = 1]
       /\ sellsyInvoices[j].service = "recS1"
       /\ sellsyInvoices[j].validated
       /\ sellsyInvoices[j].run = 2

(***************************************************************************)
(* Records edited by hand while the job runs.                              *)
(***************************************************************************)
MaxEdits == 1

\* The values a person may give to a counter.
EditedValues == {Num(0), Num(9)}

\* Someone changes the elapsed count or 'Occurrences totales' of a service in
\* Airtable, at any time.
ExternalEdit ==
  /\ edits < MaxEdits
  /\ edits' = edits + 1
  /\ \E id \in ServiceIds, v \in EditedValues :
       \/ serviceTable' = [serviceTable EXCEPT ![id].MoisFactures = v]
       \/ serviceTable' = [serviceTable EXCEPT ![id].OccurrencesTotales = v]
  /\ UNCHANGED <<env, sellsyDraft, caller, faults, today, abonnementsTable, run,
                 calls, cacheVars, reqVars, stopped, pc, mainVars, fetchVars,
                 giVars, updVars, vi, exitCode, sellsyInvoices, log, updates>>

\* Few records and the two drafts; at most one call is rejected.
EditWorlds ==
  {World(RequiredVars, d, f, April(15), Abonnement("Actif", Num(15), Client101, l),
         OtherAbonnement, WithCounters(OtherService, c), OtherService) :
     d \in Drafts, f \in {0, 1}, l \in {<<"recS1">>, <<"recS1", "recS2">>},
     c \in FewCounterTriples}

InitEdit == \E w \in EditWorlds : InitWorld(w, "main", "start")

\* One run, and the edits.
NextEdit == Run \/ ExternalEdit

SpecEdit == InitEdit /\ [][NextEdit]_vars

\* The update request of updateServiceOccurrences for the service succeeds
\* in this step.
UpdateSucceeds(id) ==
  log' = Append(log, [op |-> "update", svc |-> id, ok |-> TRUE])

\* C32: the record that updateServiceOccurrences reads is the stored one,
\* whatever copy the run holds since getServicesForSubscription; and when
\* the record is still as read, the elapsed count written is the stored
\* count plus one.
C32_ElapsedCountFromRecordReadAgain ==
  /\ [][\A id \in ServiceIds :
          log' = Append(log, [op |-> "updateFind", svc |-> id, ok |-> TRUE])
            => service' = serviceTable[id]]_vars
  /\ [][\A id \in ServiceIds :
          UpdateSucceeds(id) /\ service = serviceTable[id]
            => serviceTable'[id].MoisFactures
                 = Num(OrZero(serviceTable[id].MoisFactures) + 1)]_vars

\* The elapsed count of recS1 was 2 when the run read its services and was set
\* to 9 by hand before the update: 10 is stored.
C32_Witness ==
  /\ edits = 1
  /\ updates["recS1"] = 1
  /\ \E k \in DOMAIN services :
       services[k].id = "recS1" /\ services[k].fields.MoisFactures = Num(2)
  /\ serviceTable["recS1"].MoisFactures = Num(10)

\* C36: what updateServiceOccurrences writes is computed from the record as
\* it was read, also when the stored record has changed since: the elapsed
\* count written is the one read plus one, and the remaining count written
\* is the total read minus that, or zero.
C36_WriteComputedFromEarlierRead ==
  [][\A id \in ServiceIds :
       UpdateSucceeds(id)
         => /\ serviceTable'[id].MoisFactures = Num(OrZero(service.MoisFactures) + 1)
            /\ serviceTable'[id].OccurrencesRestantes
                 = Num(Max(0, OrZero(service.OccurrencesTotales)
                                - (OrZero(service.MoisFactures) + 1)))]_vars

\* The elapsed count of recS1 was read as 2, set to 9 by hand, and then written
\* as 3 by the update: the edit is lost.
C36_Witness ==
  /\ edits = 1
  /\ updates["recS1"] = 1
  /\ service.MoisFactures = Num(2)
  /\ serviceId = "recS1"
  /\ serviceTable["recS1"].MoisFactures = Num(3)
  /\ serviceTable["recS1"].OccurrencesTotales = Num(7)


(***************************************************************************)
(* The invoices of one service: within a run and over the runs.            *)
(***************************************************************************)
\* The invoices created for the service in the run.
InvoicesOfRun(id, r) ==
  {i \in DOMAIN sellsyInvoices :
     sellsyInvoices[i].service = id /\ sellsyInvoices[i].run = r}

\* C34 as the specification states it: within one run at most one invoice is
\* created for a service record, also when the record is linked from several
\* due subscriptions or more than once from one subscription.
C34_OneInvoicePerServicePerRun ==
  \A id \in ServiceIds : \A r \in 1..run : Cardinality(InvoicesOfRun(id, r)) <= 1

\* Runs over records whose stored counters agree: nothing stops the process
\* and nothing else writes the records.
SpecRuns == InitStop /\ [][Next]_vars

\* The invoices created for the service, in every run.
InvoicesOf(id) == {i \in DOMAIN sellsyInvoices : sellsyInvoices[i].service = id}

\* The invoices of the service that generateInvoice returned to the loop.
ReturnedInvoices(id) ==
  {i \in InvoicesOf(id) : StrictDraft => sellsyInvoices[i].validated}

\* Every counter update called for so far has been made and has succeeded.
EveryUpdateSucceeded(id) == updates[id] = Cardinality(ReturnedInvoices(id))

\* The remaining count of the service before the first run: each successful
\* update has added one to the elapsed count and left the total alone.
RemainingBeforeFirstRun(id) ==
  OrZero(serviceTable[id].OccurrencesTotales)
    - (OrZero(serviceTable[id].MoisFactures) - updates[id])

\* C33 as the specification states it: when every counter update succeeds
\* and nothing else writes the records, the invoices of a service are never
\* more than the remaining count it had before the first run, and its stored
\* elapsed count never exceeds its total.  Only the validated invoices are
\* counted here, which is the least the sentence can mean.
C33_InvoicesWithinRemainingCount ==
  \A id \in ServiceIds :
    EveryUpdateSucceeded(id) =>
      /\ Cardinality(IssuedInvoices(id)) <= RemainingBeforeFirstRun(id)
      /\ OrZero(serviceTable[id].MoisFactures)
           <= OrZero(serviceTable[id].OccurrencesTotales)


(***************************************************************************)
(* The parameters of generateInvoice.                                      *)
(***************************************************************************)
\* The loop is at an eligible service for which generateInvoice is called
\* with a missing client, name or price.
CalledWithMissingParameter ==
  /\ pc = "service"
  /\ vi <= Len(services)
  /\ HasOccurrences(services[vi].fields)
  /\ HasSellsyId(services[vi].fields)
  /\ ParametersMissing(abonnements[ai].fields.ID_Sellsy_abonne,
                       services[vi].fields.NomDuService, services[vi].fields.PrixHT)

\* The record of the service has no name or a falsy price (absent or 0).
NameOrPriceMissing(id) ==
  serviceTable[id].NomDuService = "" \/ ~Truthy(serviceTable[id].PrixHT)

\* C37: when generateInvoice is called with a missing or falsy client, name
\* or price (a price of 0 included) the step sends no request, creates no
\* invoice, writes no record and the loop is at the next service; and in no
\* run is a request to the billing API sent, an invoice created or a counter
\* updated for a service whose name or price is missing.
C37_MissingParameterNoInvoiceNoUpdate ==
  /\ [][CalledWithMissingParameter =>
          /\ log' = log
          /\ sellsyInvoices' = sellsyInvoices
          /\ serviceTable' = serviceTable /\ updates' = updates
          /\ pc' = "service" /\ vi' = vi + 1]_vars
  /\ [](\A id \in ServiceIds :
          NameOrPriceMissing(id) =>
            /\ InvoicesOf(id) = {}
            /\ updates[id] = 0
            /\ \A i \in DOMAIN log : log[i].svc = id => log[i].op = "find")

\* A second run has passed a service with occurrences left, a Sellsy id and
\* a price of 0: there is no invoice and no update for it.
C37_Witness ==
  /\ run = 2
  /\ pc = "service"
  /\ vi > 1
  /\ HasOccurrences(services[1].fields)
  /\ HasSellsyId(services[1].fields)
  /\ services[1].fields.NomDuService # ""
  /\ services[1].fields.PrixHT = Num(0)
  /\ InvoicesOf(services[1].id) = {}
  /\ updates[services[1].id] = 0


(***************************************************************************)
(* The HTTP calls of one call of sellsyRequest.                            *)
(***************************************************************************)
\* The calls of sellsyRequest without the clock moving: the waits of a call
\* are 2 and 3 seconds, and whether the cache is used is decided by the
\* expires_in of the cached token.
NextReqLive ==
  \/ CallSellsyRequest
  \/ GetAccessToken
  \/ PostAccessTokens
  \/ AxiosRequest

\* Every request sent gets its answer or its error, and every wait before a
\* retry ends: the steps of a call under way are taken.
SpecReqLive ==
  /\ InitReq
  /\ [][NextReqLive]_vars
  /\ WF_vars(GetAccessToken)
  /\ WF_vars(PostAccessTokens)
  /\ WF_vars(AxiosRequest)

\* A call of sellsyRequest is under way.
CallUnderWay == rq \in {"begin", "token", "send"}

\* C35: every call of sellsyRequest ends, returning or throwing, and it has
\* sent at most 3 requests to the API and at most 9 to the token endpoint,
\* each of its attempts running getAccessToken with retries of its own.
C35_CallEndsWithinThreeAndNineRequests ==
  /\ [](sends <= MAX_RETRIES /\ posts <= MAX_RETRIES * MAX_RETRIES)
  /\ (CallUnderWay ~> rq \in {"returned", "thrown"})

\* A call has thrown after nine requests to the token endpoint, none of
\* which gave a token, and no request to the API.
C35_Witness ==
  /\ rq = "thrown"
  /\ posts = 9
  /\ sends = 0
  /\ retryCount = 2
  /\ tokenRetry = 2
  /\ answer = TokenError


(***************************************************************************)
(* The cache right after a token was received.                             *)
(***************************************************************************)
\* This step receives a token from the token endpoint and stores it.
TokenFetched == rq = "token" /\ rq' = "send"

\* This step is the test of the cache by getAccessToken.
CacheTested == rq = "begin" /\ rq' # "begin" /\ ~CredentialsMissing(env)

\* C38: the token just received is one the next getAccessToken call returns
\* from the cache exactly when its expires_in is more than 300 seconds; a
\* stored token that the test of the cache refuses is refused ever after;
\* the cached token is returned without a request to the token endpoint only
\* when the test accepts it, and otherwise the call goes to the token
\* endpoint.
C38_CacheUsedOnlyAboveFiveMinutes ==
  /\ [][TokenFetched => (TokenValid' <=> expiresAt' - dateNow' > Seconds(300))]_vars
  /\ [][accessToken # 0 /\ ~TokenValid /\ accessToken' = accessToken => ~TokenValid']_vars
  /\ [][CacheTested =>
          IF TokenValid
            THEN rq' = "send" /\ token' = accessToken /\ posts' = posts /\ issued' = issued
            ELSE rq' = "token"]_vars

\* The first call received a token with expires_in = 300 and no time has
\* passed: the stored expiry is the present instant, and the second call is
\* at the token endpoint again.
C38_Witness ==
  /\ requests = 2
  /\ rq = "token"
  /\ dateNow = Seconds(1000)
  /\ accessToken = 1
  /\ issued = 1
  /\ tokenExpiration = dateNow
  /\ expiresAt = dateNow + Seconds(300)

====
